---- MODULE Spec2Model ----
(***************************************************************************)
(* The notice store of src/src/index.ts (the caller-supplied-id,           *)
(* hard-delete canister).  Strings are sequences of UTF-16 code units,     *)
(* optional values are <<>> (null) or <<v>>, and the StableBTreeMap is a   *)
(* function from keys to the values toBytes wrote.                         *)
(***************************************************************************)
EXTENDS Integers, Sequences, FiniteSets, TLC

\* ------------------------------------------------------------------ bounds
MaxTime == 2     \* the clock runs over 1..MaxTime
MaxLimit == 2    \* getNotices is called with limit, offset in -1..MaxLimit
\* largest time stamp of a notice handed to the codec (two decimal digits)
MaxStamp == 12

\* --------------------------------------------------------- option values
None == <<>>
Some(v) == <<v>>

\* --------------------------------------------------------------- strings
Rep(c, n) == [i \in 1..n |-> c]

\* the code units String.prototype.trim removes (WhiteSpace and LineTerminator)
WhiteSpace ==
    {9, 10, 11, 12, 13, 32, 160, 5760, 8232, 8233, 8239, 8287, 12288, 65279}
        \cup (8192..8202)

\* the character class [a-zA-Z0-9-_]
IdChars == (97..122) \cup (65..90) \cup (48..57) \cup {45, 95}

RECURSIVE SkipLeft(_, _)
SkipLeft(s, i) ==
    IF i <= Len(s) /\ s[i] \in WhiteSpace THEN SkipLeft(s, i + 1) ELSE i

RECURSIVE SkipRight(_, _)
SkipRight(s, j) ==
    IF j >= 1 /\ s[j] \in WhiteSpace THEN SkipRight(s, j - 1) ELSE j

\* String.prototype.trim
trim(s) ==
    LET i == SkipLeft(s, 1)
        j == SkipRight(s, Len(s))
    IN  IF i > j THEN <<>> ELSE SubSeq(s, i, j)

\* /^[a-zA-Z0-9-_]+$/.test(id)
RegexIdTest(id) == Len(id) >= 1 /\ \A i \in 1..Len(id) : id[i] \in IdChars

\* bigint.toString(): the decimal digits of n
RECURSIVE toString(_)
toString(n) ==
    IF n < 10 THEN <<48 + n>> ELSE Append(toString(n \div 10), 48 + (n % 10))

\* BigInt(string) on a string of decimal digits
RECURSIVE BigInt(_)
BigInt(s) ==
    IF Len(s) = 0 THEN 0
    ELSE 10 * BigInt(SubSeq(s, 1, Len(s) - 1)) + (s[Len(s)] - 48)

\* lexicographic order on strings by code unit: the key order of the map
RECURSIVE StrLess(_, _)
StrLess(a, b) ==
    IF Len(b) = 0 THEN FALSE
    ELSE IF Len(a) = 0 THEN TRUE
    ELSE IF a[1] # b[1] THEN a[1] < b[1]
    ELSE StrLess(Tail(a), Tail(b))

\* ------------------------------------------------------------ NoticeImpl
MAX_TITLE_LENGTH == 200
MAX_DESCRIPTION_LENGTH == 1000
MAX_ID_LENGTH == 100

NoError == "none"

\* validateNoticeInput with the title limit compared by >= instead of >
validateNoticeInputGe(id, title, description) ==
    IF Len(id) = 0 \/ Len(trim(id)) = 0 THEN "ID cannot be empty"
    ELSE IF Len(id) > MAX_ID_LENGTH THEN "ID cannot exceed 100 characters"
    ELSE IF ~RegexIdTest(id)
        THEN "ID can only contain alphanumeric characters, hyphens, and underscores"
    ELSE IF Len(title) = 0 \/ Len(trim(title)) = 0 THEN "Title cannot be empty"
    ELSE IF Len(title) >= MAX_TITLE_LENGTH THEN "Title cannot exceed 200 characters"
    ELSE IF Len(description) = 0 \/ Len(trim(description)) = 0
        THEN "Description cannot be empty"
    ELSE IF Len(description) > MAX_DESCRIPTION_LENGTH
        THEN "Description cannot exceed 1000 characters"
    ELSE NoError

\* validateNoticeInput: the message of the Error it throws, or NoError
validateNoticeInput(id, title, description) ==
    IF Len(id) = 0 \/ Len(trim(id)) = 0 THEN "ID cannot be empty"
    ELSE IF Len(id) > MAX_ID_LENGTH THEN "ID cannot exceed 100 characters"
    ELSE IF ~RegexIdTest(id)
        THEN "ID can only contain alphanumeric characters, hyphens, and underscores"
    ELSE IF Len(title) = 0 \/ Len(trim(title)) = 0 THEN "Title cannot be empty"
    ELSE IF Len(title) > MAX_TITLE_LENGTH THEN "Title cannot exceed 200 characters"
    ELSE IF Len(description) = 0 \/ Len(trim(description)) = 0
        THEN "Description cannot be empty"
    ELSE IF Len(description) > MAX_DESCRIPTION_LENGTH
        THEN "Description cannot exceed 1000 characters"
    ELSE NoError

\* new NoticeImpl(...): the constructor validates and may throw
NoticeImpl(id, title, description, createdAt, updatedAt, isActive) ==
    LET e == validateNoticeInput(id, title, description)
    IN  IF e # NoError
        THEN [threw |-> TRUE, message |-> e]
        ELSE [threw |-> FALSE,
              notice |-> [id |-> id, title |-> title, description |-> description,
                          createdAt |-> createdAt, updatedAt |-> updatedAt,
                          isActive |-> isActive]]

\* NoticeImpl.create storing the title as passed, untrimmed
NoticeImpl_createRawTitle(id, title, description, isActive, time) ==
    NoticeImpl(trim(id), title, trim(description), time, None, isActive)

\* NoticeImpl.create: trims the three strings, stamps createdAt, no updatedAt
NoticeImpl_create(id, title, description, isActive, time) ==
    NoticeImpl(trim(id), trim(title), trim(description), time, None, isActive)

\* --------------------------------------------------------- serialization
\* `x ? a : b` on an optional bigint: null and 0n are falsy
TruthyBigInt(o) == o # None /\ o[1] # 0

\* `x ? a : b` on an optional string: null and "" are falsy
TruthyString(o) == o # None /\ Len(o[1]) > 0

\* toBytes writing null for every updatedAt
toBytesNoUpdatedAt(notice) ==
    [id |-> notice.id,
     title |-> notice.title,
     description |-> notice.description,
     createdAt |-> toString(notice.createdAt),
     updatedAt |-> None,
     isActive |-> notice.isActive]

\* NoticeImplSerialization.toBytes: the object that is written as JSON
toBytes(notice) ==
    [id |-> notice.id,
     title |-> notice.title,
     description |-> notice.description,
     createdAt |-> toString(notice.createdAt),
     updatedAt |-> IF TruthyBigInt(notice.updatedAt)
                   THEN Some(toString(notice.updatedAt[1]))
                   ELSE None,
     isActive |-> notice.isActive]

\* NoticeImplSerialization.fromBytes: parses and constructs (so validates)
fromBytes(data) ==
    NoticeImpl(data.id, data.title, data.description,
               BigInt(data.createdAt),
               IF TruthyString(data.updatedAt)
               THEN Some(BigInt(data.updatedAt[1]))
               ELSE None,
               data.isActive)

\* -------------------------------------------------------- StableBTreeMap
containsKey(st, k) == k \in DOMAIN st

\* insert(k, v): adds or overwrites the entry under k
insert(st, k, notice) ==
    [x \in (DOMAIN st) \cup {k} |-> IF x = k THEN toBytes(notice) ELSE st[x]]

\* remove(k)
remove(st, k) == [x \in (DOMAIN st) \ {k} |-> st[x]]

\* get(k): null for a missing key, else the decoded value (decoding may throw)
get(st, k) ==
    IF k \notin DOMAIN st
    THEN [threw |-> FALSE, found |-> FALSE]
    ELSE LET n == fromBytes(st[k])
         IN  IF n.threw
             THEN [threw |-> TRUE, found |-> FALSE]
             ELSE [threw |-> FALSE, found |-> TRUE, notice |-> n.notice]

\* keys(): the keys in key order
RECURSIVE SortKeys(_)
SortKeys(S) ==
    IF S = {} THEN <<>>
    ELSE LET m == CHOOSE x \in S : \A y \in S \ {x} : StrLess(x, y)
         IN  <<m>> \o SortKeys(S \ {m})

keys(st) == SortKeys(DOMAIN st)

\* ---------------------------------------------------------------- inputs
IdA == <<97>>                 \* "a"
IdB == <<98>>                 \* "b"
IdSpaceA == <<32, 97>>        \* " a": trims to "a"
IdBang == <<97, 33>>          \* "a!"
IdLong == Rep(97, 101)        \* "a" * 101
IdEmpty == <<>>

Ids == {IdA, IdB, IdSpaceA, IdBang, IdLong, IdEmpty}

TitleT == <<116, 32>>                    \* "t "
TitlePadded == <<32>> \o Rep(84, 200)    \* " " + "T" * 200
TitleLong == Rep(84, 201)                \* "T" * 201
TitleBlank == <<32, 32>>

Titles == {TitleT, TitlePadded, TitleLong, TitleBlank}

DescD == <<32, 100>>                     \* " d"
DescLong == Rep(100, 1001)               \* "d" * 1001
DescEmpty == <<>>

Descriptions == {DescD, DescLong, DescEmpty}

OptOf(S) == {None} \cup {Some(v) : v \in S}

\* ----------------------------------------------------------------- state
VARIABLES
    store,     \* noticesStorage: key -> stored value
    now,       \* ic.time()
    reply,     \* the call just executed, with its arguments and its outcome,
               \* until the caller has received it; NoReply between calls
    deleted    \* history: the keys deleted and not created again since

vars == <<store, now, reply, deleted>>

NoReply == [op |-> "none"]

Ok(st) == [kind |-> "Ok", store |-> st]
Err(kind, st) == [kind |-> kind, store |-> st]

\* createNotice inserting before the fields are validated
createNoticeInsertFirst(st, time, id, title, description, isActive) ==
    IF containsKey(st, id)
    THEN Err("InvalidInput", st)
    ELSE LET written ==
                 insert(st, trim(id),
                        [id |-> trim(id), title |-> trim(title),
                         description |-> trim(description), createdAt |-> time,
                         updatedAt |-> None,
                         isActive |-> IF isActive = None THEN TRUE ELSE isActive[1]])
         IN  IF validateNoticeInput(trim(id), trim(title), trim(description)) # NoError
             THEN Err("InvalidInput", written)
             ELSE Ok(written)

\* createNotice inserting under the id as passed instead of notice.id
createNoticeRawKey(st, time, id, title, description, isActive) ==
    IF containsKey(st, id)
    THEN Err("InvalidInput", st)
    ELSE LET n == NoticeImpl_create(id, title, description,
                                    IF isActive = None THEN TRUE ELSE isActive[1],
                                    time)
         IN  IF n.threw
             THEN Err("InvalidInput", st)
             ELSE Ok(insert(st, id, n.notice))

\* createNotice(id, title, description, isActive = true)
createNotice(st, time, id, title, description, isActive) ==
    IF containsKey(st, id)
    THEN Err("InvalidInput", st)
    ELSE LET n == NoticeImpl_create(id, title, description,
                                    IF isActive = None THEN TRUE ELSE isActive[1],
                                    time)
         IN  IF n.threw
             THEN Err("InvalidInput", st)
             ELSE Ok(insert(st, n.notice.id, n.notice))

\* getNoticeById(id): not inside a try, so a throwing decode escapes
getNoticeById(st, id) ==
    LET g == get(st, id)
    IN  IF g.threw THEN [kind |-> "Throws"]
        ELSE IF ~g.found THEN [kind |-> "NotFound"]
        ELSE [kind |-> "Ok", notice |-> g.notice]

\* the merge and write of updateNotice, with the way isActive is merged and
\* whether the fields are validated before the lookup left open
updateNoticeWith(st, time, id, title, description, isActive, orMerge, validateFirst) ==
    LET g == get(st, id)
        early == IF title # None /\ description # None
                 THEN validateNoticeInput(IdA, title[1], description[1])
                 ELSE NoError
    IN  IF validateFirst /\ early # NoError THEN Err("InvalidInput", st)
        ELSE IF g.threw THEN Err("InvalidInput", st)
        ELSE IF ~g.found THEN Err("NotFound", st)
        ELSE
          LET existingNotice == g.notice
              pre == IF title # None \/ description # None
                     THEN validateNoticeInput(
                              id,
                              IF title # None THEN title[1] ELSE existingNotice.title,
                              IF description # None THEN description[1]
                                                    ELSE existingNotice.description)
                     ELSE NoError
              updatedNotice ==
                  NoticeImpl(
                      id,
                      IF title # None THEN trim(title[1]) ELSE existingNotice.title,
                      IF description # None THEN trim(description[1])
                                            ELSE existingNotice.description,
                      existingNotice.createdAt,
                      Some(time),
                      IF orMerge
                      THEN (isActive # None /\ isActive[1]) \/ existingNotice.isActive
                      ELSE IF isActive # None THEN isActive[1]
                                              ELSE existingNotice.isActive)
          IN  IF pre # NoError THEN Err("InvalidInput", st)
              ELSE IF updatedNotice.threw THEN Err("InvalidInput", st)
              ELSE Ok(insert(st, id, updatedNotice.notice))

\* updateNotice merging isActive with || instead of ??
updateNoticeOrMerge(st, time, id, title, description, isActive) ==
    updateNoticeWith(st, time, id, title, description, isActive, TRUE, FALSE)

\* updateNotice validating the supplied fields before looking the id up
updateNoticeValidateFirst(st, time, id, title, description, isActive) ==
    updateNoticeWith(st, time, id, title, description, isActive, FALSE, TRUE)

\* updateNotice handing the two time stamps to the constructor in swapped order
updateNoticeSwappedStamps(st, time, id, title, description, isActive) ==
    LET g == get(st, id)
    IN  IF g.threw THEN Err("InvalidInput", st)
        ELSE IF ~g.found THEN Err("NotFound", st)
        ELSE
          LET existingNotice == g.notice
              pre == IF title # None \/ description # None
                     THEN validateNoticeInput(
                              id,
                              IF title # None THEN title[1] ELSE existingNotice.title,
                              IF description # None THEN description[1]
                                                    ELSE existingNotice.description)
                     ELSE NoError
              updatedNotice ==
                  NoticeImpl(
                      id,
                      IF title # None THEN trim(title[1]) ELSE existingNotice.title,
                      IF description # None THEN trim(description[1])
                                            ELSE existingNotice.description,
                      time,
                      Some(existingNotice.createdAt),
                      IF isActive # None THEN isActive[1] ELSE existingNotice.isActive)
          IN  IF pre # NoError THEN Err("InvalidInput", st)
              ELSE IF updatedNotice.threw THEN Err("InvalidInput", st)
              ELSE Ok(insert(st, id, updatedNotice.notice))

\* updateNotice(id, title, description, isActive): null is an omitted field
updateNotice(st, time, id, title, description, isActive) ==
    LET g == get(st, id)
    IN  IF g.threw THEN Err("InvalidInput", st)
        ELSE IF ~g.found THEN Err("NotFound", st)
        ELSE
          LET existingNotice == g.notice
              pre == IF title # None \/ description # None
                     THEN validateNoticeInput(
                              id,
                              IF title # None THEN title[1] ELSE existingNotice.title,
                              IF description # None THEN description[1]
                                                    ELSE existingNotice.description)
                     ELSE NoError
              updatedNotice ==
                  NoticeImpl(
                      id,
                      IF title # None THEN trim(title[1]) ELSE existingNotice.title,
                      IF description # None THEN trim(description[1])
                                            ELSE existingNotice.description,
                      existingNotice.createdAt,
                      Some(time),
                      IF isActive # None THEN isActive[1] ELSE existingNotice.isActive)
          IN  IF pre # NoError THEN Err("InvalidInput", st)
              ELSE IF updatedNotice.threw THEN Err("InvalidInput", st)
              ELSE Ok(insert(st, id, updatedNotice.notice))

\* deleteNotice reporting success without removing the entry
deleteNoticeKeep(st, id) ==
    IF ~containsKey(st, id) THEN Err("NotFound", st) ELSE Ok(st)

\* deleteNotice(id): hard delete
deleteNotice(st, id) ==
    IF ~containsKey(st, id) THEN Err("NotFound", st) ELSE Ok(remove(st, id))

\* values(): the decoded values in key order
values(st) == [i \in 1..Len(keys(st)) |-> fromBytes(st[keys(st)[i]])]

AnyThrew(ns) == \E i \in 1..Len(ns) : ns[i].threw

Notices(ns) == [i \in 1..Len(ns) |-> ns[i].notice]

\* getAllNotices(): not inside a try
getAllNotices(st) ==
    LET ns == values(st)
    IN  IF AnyThrew(ns) THEN [kind |-> "Throws"]
        ELSE [kind |-> "Ok", notices |-> Notices(ns)]

Min(a, b) == IF a < b THEN a ELSE b

\* Array.prototype.slice(start, end) for integers start, end >= 0
slice(s, start, end) == SubSeq(s, start + 1, Min(end, Len(s)))

\* getNotices slicing to limit instead of offset + limit
getNoticesEndLimit(st, limit, offset) ==
    IF limit < 0 \/ offset < 0 THEN [kind |-> "InvalidInput"]
    ELSE
      LET ks == keys(st)
          paginatedKeys == slice(ks, offset, limit)
          paginatedNotices ==
              [i \in 1..Len(paginatedKeys) |-> fromBytes(st[paginatedKeys[i]])]
      IN  IF AnyThrew(paginatedNotices) THEN [kind |-> "InvalidInput"]
          ELSE [kind |-> "Ok", notices |-> Notices(paginatedNotices),
                total |-> Len(ks)]

\* getNotices(limit, offset)
getNotices(st, limit, offset) ==
    IF limit < 0 \/ offset < 0 THEN [kind |-> "InvalidInput"]
    ELSE
      LET ks == keys(st)
          total == Len(ks)
          paginatedKeys == slice(ks, offset, offset + limit)
          paginatedNotices ==
              [i \in 1..Len(paginatedKeys) |-> fromBytes(st[paginatedKeys[i]])]
      IN  IF AnyThrew(paginatedNotices) THEN [kind |-> "InvalidInput"]
          ELSE [kind |-> "Ok", notices |-> Notices(paginatedNotices),
                total |-> total]

\* String.prototype.toLowerCase on the code units the inputs use (A-Z)
toLowerCase(s) == [i \in 1..Len(s) |-> IF s[i] \in 65..90 THEN s[i] + 32 ELSE s[i]]

\* String.prototype.includes
includes(s, t) ==
    \E i \in 0..(Len(s) - Len(t)) : \A j \in 1..Len(t) : s[i + j] = t[j]

RECURSIVE filter(_, _)
filter(s, i) ==
    IF i > Len(s) THEN <<>>
    ELSE (IF s[i].keep THEN <<s[i].notice>> ELSE <<>>) \o filter(s, i + 1)

\* searchNotices comparing the stored fields without lower-casing them
searchNoticesCaseSensitive(st, query) ==
    IF Len(query) = 0 \/ Len(trim(query)) = 0 THEN [kind |-> "InvalidInput"]
    ELSE
      LET searchTerm == trim(toLowerCase(query))
          ns == values(st)
      IN  IF AnyThrew(ns) THEN [kind |-> "InvalidInput"]
          ELSE [kind |-> "Ok",
                notices |->
                  filter([i \in 1..Len(ns) |->
                            [notice |-> ns[i].notice,
                             keep |-> \/ includes(ns[i].notice.title, searchTerm)
                                      \/ includes(ns[i].notice.description,
                                                  searchTerm)]], 1)]

\* searchNotices rejecting only the empty query, not the whitespace-only one
searchNoticesNoTrimCheck(st, query) ==
    IF Len(query) = 0 THEN [kind |-> "InvalidInput"]
    ELSE
      LET searchTerm == trim(toLowerCase(query))
          ns == values(st)
      IN  IF AnyThrew(ns) THEN [kind |-> "InvalidInput"]
          ELSE [kind |-> "Ok",
                notices |->
                  filter([i \in 1..Len(ns) |->
                            [notice |-> ns[i].notice,
                             keep |-> \/ includes(toLowerCase(ns[i].notice.title),
                                                  searchTerm)
                                      \/ includes(toLowerCase(ns[i].notice.description),
                                                  searchTerm)]], 1)]

\* searchNotices(query)
searchNotices(st, query) ==
    IF Len(query) = 0 \/ Len(trim(query)) = 0 THEN [kind |-> "InvalidInput"]
    ELSE
      LET searchTerm == trim(toLowerCase(query))
          ns == values(st)
      IN  IF AnyThrew(ns) THEN [kind |-> "InvalidInput"]
          ELSE [kind |-> "Ok",
                notices |->
                  filter([i \in 1..Len(ns) |->
                            [notice |-> ns[i].notice,
                             keep |-> \/ includes(toLowerCase(ns[i].notice.title),
                                                  searchTerm)
                                      \/ includes(toLowerCase(ns[i].notice.description),
                                                  searchTerm)]], 1)]

\* "t", "T ", "Tt", " ", ""
Queries == {<<116>>, <<84, 32>>, <<84, 116>>, <<32>>, <<>>}

Init ==
    /\ store = <<>>
    /\ now = 1
    /\ reply = NoReply
    /\ deleted = {}

\* ic.time() advances between calls and never goes back
Tick ==
    /\ reply = NoReply
    /\ now < MaxTime
    /\ now' = now + 1
    /\ UNCHANGED <<store, reply, deleted>>

\* the caller receives the outcome; calls are made one at a time
Deliver ==
    /\ reply # NoReply
    /\ reply' = NoReply
    /\ UNCHANGED <<store, now, deleted>>

CreateNotice ==
    /\ reply = NoReply
    /\ \E id \in Ids, title \in Titles, description \in Descriptions,
          isActive \in OptOf(BOOLEAN) :
        LET r == createNotice(store, now, id, title, description, isActive)
        IN  /\ store' = r.store
            /\ reply' = [op |-> "createNotice", id |-> id, title |-> title,
                         description |-> description, isActive |-> isActive,
                         time |-> now, kind |-> r.kind,
                         reused |-> id \in deleted]
            /\ deleted' = IF r.kind = "Ok" THEN deleted \ {trim(id)} ELSE deleted
            /\ UNCHANGED now

UpdateNotice ==
    /\ reply = NoReply
    /\ \E id \in Ids, title \in OptOf(Titles), description \in OptOf(Descriptions),
          isActive \in OptOf(BOOLEAN) :
        LET r == updateNotice(store, now, id, title, description, isActive)
        IN  /\ store' = r.store
            /\ reply' = [op |-> "updateNotice", id |-> id, title |-> title,
                         description |-> description, isActive |-> isActive,
                         time |-> now, kind |-> r.kind]
            /\ UNCHANGED <<now, deleted>>

DeleteNotice ==
    /\ reply = NoReply
    /\ \E id \in Ids :
        LET r == deleteNotice(store, id)
        IN  /\ store' = r.store
            /\ reply' = [op |-> "deleteNotice", id |-> id, kind |-> r.kind]
            /\ deleted' = IF r.kind = "Ok" THEN deleted \cup {id} ELSE deleted
            /\ UNCHANGED now

GetNoticeById ==
    /\ reply = NoReply
    /\ \E id \in Ids :
        LET r == getNoticeById(store, id)
        IN  reply' = [op |-> "getNoticeById", id |-> id, kind |-> r.kind,
                      result |-> r]
    /\ UNCHANGED <<store, now, deleted>>

GetAllNotices ==
    /\ reply = NoReply
    /\ LET r == getAllNotices(store)
       IN  reply' = [op |-> "getAllNotices", kind |-> r.kind, result |-> r]
    /\ UNCHANGED <<store, now, deleted>>

GetNotices ==
    /\ reply = NoReply
    /\ \E limit \in -1..MaxLimit, offset \in -1..MaxLimit :
        LET r == getNotices(store, limit, offset)
        IN  reply' = [op |-> "getNotices", limit |-> limit, offset |-> offset,
                      kind |-> r.kind, result |-> r]
    /\ UNCHANGED <<store, now, deleted>>

\* searchNotices emptying the map it has read
SearchNoticesClearing ==
    /\ reply = NoReply
    /\ \E query \in Queries :
        LET r == searchNotices(store, query)
        IN  reply' = [op |-> "searchNotices", query |-> query, kind |-> r.kind,
                      result |-> r]
    /\ store' = <<>>
    /\ UNCHANGED <<now, deleted>>

SearchNotices ==
    /\ reply = NoReply
    /\ \E query \in Queries :
        LET r == searchNotices(store, query)
        IN  reply' = [op |-> "searchNotices", query |-> query, kind |-> r.kind,
                      result |-> r]
    /\ UNCHANGED <<store, now, deleted>>

Next ==
    \/ Tick
    \/ Deliver
    \/ CreateNotice
    \/ UpdateNotice
    \/ DeleteNotice
    \/ GetNoticeById
    \/ GetAllNotices
    \/ GetNotices
    \/ SearchNotices

Spec == Init /\ [][Next]_vars

\* ---------------------------------------------------------------- claims
\* a step that executes a call of op
Calls(op) == reply = NoReply /\ reply'.op = op

ErrorKinds == {"NotFound", "AlreadyExists", "InvalidInput"}

\* the stored record under k, decoded
Stored(st, k) == get(st, k).notice

\* C1: right after createNotice(id, ...) has succeeded (so id has not been
\* deleted since), createNotice with the same id and any title, description
\* and isActive fails AlreadyExists and leaves the store unchanged.
C1_SecondCreateAlreadyExists ==
    (reply.op = "createNotice" /\ reply.kind = "Ok") =>
        \A title \in Titles, description \in Descriptions, isActive \in OptOf(BOOLEAN) :
            LET r == createNotice(store, now, reply.id, title, description, isActive)
            IN  r.kind = "AlreadyExists" /\ r.store = store

\* C2: a successful createNotice inserts exactly one new key: the number of
\* records grows by one and every record stored before is still stored under
\* its key, unchanged.
C2_CreateInsertsOneNewKey ==
    [][(Calls("createNotice") /\ reply'.kind = "Ok") =>
          /\ Cardinality(DOMAIN store') = Cardinality(DOMAIN store) + 1
          /\ \A k \in DOMAIN store : k \in DOMAIN store' /\ store'[k] = store[k]]_vars

\* the field rules of the data model, on the trimmed values
TrimmedIdOk(id) ==
    LET t == trim(id)
    IN  Len(t) >= 1 /\ Len(t) <= 100 /\ \A i \in 1..Len(t) : t[i] \in IdChars

TrimmedLenIn(s, max) == Len(trim(s)) >= 1 /\ Len(trim(s)) <= max

\* C3: for an id that is not a key, createNotice succeeds exactly when the
\* trimmed id has 1..100 characters of [A-Za-z0-9_-], the trimmed title 1..200
\* and the trimmed description 1..1000 characters; otherwise it fails
\* InvalidInput and inserts nothing.
C3_CreateValidation ==
    [][(Calls("createNotice") /\ reply'.id \notin DOMAIN store) =>
          LET valid == /\ TrimmedIdOk(reply'.id)
                       /\ TrimmedLenIn(reply'.title, 200)
                       /\ TrimmedLenIn(reply'.description, 1000)
          IN  /\ (reply'.kind = "Ok") <=> valid
              /\ ~valid => (reply'.kind = "InvalidInput" /\ store' = store)]_vars

\* createNotice accepted a title of 201 code units that trims to 200
C3_Witness ==
    /\ reply.op = "createNotice" /\ reply.kind = "Ok"
    /\ Len(reply.title) = 201 /\ Len(Stored(store, trim(reply.id)).title) = 200

\* C4: a createNotice, updateNotice or deleteNotice call that returns an error
\* leaves the store as it was: same keys, same values.
C4_FailedCallLeavesStore ==
    [][((Calls("createNotice") \/ Calls("updateNotice") \/ Calls("deleteNotice"))
          /\ reply'.kind \in ErrorKinds) => store' = store]_vars

\* updateNotice of a stored record was refused for a field that is too long
C4_Witness ==
    /\ reply.op = "updateNotice" /\ reply.kind = "InvalidInput"
    /\ reply.id \in DOMAIN store
    /\ reply.title = Some(TitleLong) /\ reply.isActive # None

\* C5: right after createNotice(id, title, description) succeeds with isActive
\* omitted, getNoticeById(trimmed id) returns the trimmed id, title and
\* description, createdAt = the clock of the call, no updatedAt, isActive true.
C5_CreatedRecord ==
    (reply.op = "createNotice" /\ reply.kind = "Ok" /\ reply.isActive = None) =>
        getNoticeById(store, trim(reply.id)) =
            [kind |-> "Ok",
             notice |-> [id |-> trim(reply.id),
                         title |-> trim(reply.title),
                         description |-> trim(reply.description),
                         createdAt |-> reply.time,
                         updatedAt |-> None,
                         isActive |-> TRUE]]

\* createNotice(" a", "t ", " d") succeeded after the clock had advanced
C5_Witness ==
    /\ reply.op = "createNotice" /\ reply.kind = "Ok" /\ reply.isActive = None
    /\ reply.id = IdSpaceA /\ reply.title = TitleT /\ reply.time > 1

\* C6: after a successful updateNotice(id, ...) the record under id has the
\* id and createdAt it had, and its updatedAt is present, is the clock of the
\* call, and is >= the previous updatedAt (if any) and >= createdAt.
C6_UpdateStamps ==
    [][(Calls("updateNotice") /\ reply'.kind = "Ok") =>
          LET old == Stored(store, reply'.id)
              new == Stored(store', reply'.id)
          IN  /\ new.id = old.id
              /\ new.createdAt = old.createdAt
              /\ new.updatedAt = Some(now)
              /\ old.updatedAt # None => new.updatedAt[1] >= old.updatedAt[1]
              /\ new.updatedAt[1] >= new.createdAt]_vars

\* a record created at time 1 carries the stamp of an update made later
C6_Witness ==
    /\ reply.op = "updateNotice" /\ reply.kind = "Ok"
    /\ Stored(store, reply.id).createdAt = 1
    /\ Stored(store, reply.id).updatedAt = Some(reply.time)
    /\ reply.time > 1

\* C7: a successful updateNotice changes only the record under id: an omitted
\* title, description or isActive keeps its value, a supplied one takes the
\* supplied value (title and description trimmed); the key set and every other
\* record are unchanged.
C7_UpdateFrame ==
    [][(Calls("updateNotice") /\ reply'.kind = "Ok") =>
          LET old == Stored(store, reply'.id)
              new == Stored(store', reply'.id)
          IN  /\ DOMAIN store' = DOMAIN store
              /\ \A k \in DOMAIN store \ {reply'.id} : store'[k] = store[k]
              /\ new.title = IF reply'.title = None THEN old.title
                             ELSE trim(reply'.title[1])
              /\ new.description = IF reply'.description = None THEN old.description
                                   ELSE trim(reply'.description[1])
              /\ new.isActive = IF reply'.isActive = None THEN old.isActive
                                ELSE reply'.isActive[1]]_vars

\* with two records stored, an update supplied a title and isActive = false
\* and omitted the description
C7_Witness ==
    /\ reply.op = "updateNotice" /\ reply.kind = "Ok"
    /\ Cardinality(DOMAIN store) = 2
    /\ reply.title = Some(TitleT) /\ reply.description = None
    /\ reply.isActive = Some(FALSE)
    /\ Stored(store, reply.id).isActive = FALSE

\* C8: getNoticeById, updateNotice and deleteNotice called with an id that is
\* not a key of the store fail NotFound, whatever the other arguments.
C8_MissingIdNotFound ==
    [][((Calls("getNoticeById") \/ Calls("updateNotice") \/ Calls("deleteNotice"))
          /\ reply'.id \notin DOMAIN store) => reply'.kind = "NotFound"]_vars

\* updateNotice with invalid fields on a missing id, the store not empty
C8_Witness ==
    /\ reply.op = "updateNotice" /\ reply.kind = "NotFound"
    /\ reply.title = Some(TitleBlank) /\ reply.description = Some(DescLong)
    /\ store # <<>> /\ reply.id \notin DOMAIN store

\* no record with id k in a list result
Absent(k, r) == r.kind = "Ok" => \A i \in 1..Len(r.notices) : r.notices[i].id # k

\* C9: a successful deleteNotice(id) removes the entry under id and nothing
\* else; until a createNotice stores under that id again, getNoticeById(id)
\* fails NotFound, no list, page or search result holds the record, and
\* deleteNotice(id) fails NotFound (stated where the next call is made).
C9_HardDelete ==
    /\ [][(Calls("deleteNotice") /\ reply'.kind = "Ok") =>
             /\ reply'.id \in DOMAIN store
             /\ DOMAIN store' = (DOMAIN store) \ {reply'.id}
             /\ \A k \in DOMAIN store' : store'[k] = store[k]]_vars
    /\ [](reply = NoReply => \A k \in deleted :
             /\ getNoticeById(store, k).kind = "NotFound"
             /\ deleteNotice(store, k).kind = "NotFound"
             /\ Absent(k, getAllNotices(store))
             /\ \A limit \in 0..MaxLimit, offset \in 0..MaxLimit :
                    Absent(k, getNotices(store, limit, offset))
             /\ \A query \in Queries : Absent(k, searchNotices(store, query)))

\* a second deleteNotice of a deleted id was answered NotFound while another
\* record is still stored
C9_Witness ==
    /\ reply.op = "deleteNotice" /\ reply.kind = "NotFound"
    /\ reply.id \in deleted
    /\ store # <<>>

Max(a, b) == IF a > b THEN a ELSE b

\* C10: for limit >= 0 and offset >= 0, getNotices(limit, offset) succeeds,
\* total is the number of stored records and items are the elements at
\* positions offset .. offset+limit-1 of getAllNotices(): min(limit,
\* max(0, total - offset)) of them, none when offset >= total.
C10_Pagination ==
    (reply.op = "getNotices" /\ reply.limit >= 0 /\ reply.offset >= 0) =>
        LET all == getAllNotices(store).notices
            total == Cardinality(DOMAIN store)
            n == Min(reply.limit, Max(0, total - reply.offset))
        IN  /\ reply.kind = "Ok"
            /\ reply.result.total = total
            /\ Len(reply.result.notices) = n
            /\ \A i \in 1..n : reply.result.notices[i] = all[reply.offset + i]

\* the second of two records was returned as a page of its own
C10_Witness ==
    /\ reply.op = "getNotices" /\ reply.limit = 1 /\ reply.offset = 1
    /\ reply.result.total = 2
    /\ Len(reply.result.notices) = 1
    /\ reply.result.notices[1].id = IdB

\* n has q in its lower-cased title or description
Matches(n, q) ==
    includes(toLowerCase(n.title), q) \/ includes(toLowerCase(n.description), q)

\* res holds, once each and in key order, exactly the stored records that match q
ExactlyMatching(st, res, q) ==
    LET all == getAllNotices(st).notices
    IN  /\ \A i \in 1..Len(all) :
              Cardinality({j \in 1..Len(res) : res[j] = all[i]}) =
                  IF Matches(all[i], q) THEN 1 ELSE 0
        /\ \A j \in 1..Len(res) : \E i \in 1..Len(all) : res[j] = all[i]
        /\ \A j \in 1..Len(res) : \A l \in (j + 1)..Len(res) :
              StrLess(res[j].id, res[l].id)

\* C11 as claimed: for a query that is not empty after trimming, searchNotices
\* returns, in key order, exactly the records whose title or description
\* contains the query (as passed) as a case-insensitive substring.
C11_SearchByQueryAsPassed ==
    (reply.op = "searchNotices" /\ Len(trim(reply.query)) > 0) =>
        /\ reply.kind = "Ok"
        /\ ExactlyMatching(store, reply.result.notices, toLowerCase(reply.query))

\* C11 amended: for a query that is not empty after trimming, searchNotices
\* returns, in key order, exactly the records whose title or description
\* contains the trimmed query as a case-insensitive substring.
C11_SearchByTrimmedQuery ==
    (reply.op = "searchNotices" /\ Len(trim(reply.query)) > 0) =>
        /\ reply.kind = "Ok"
        /\ ExactlyMatching(store, reply.result.notices,
                           trim(toLowerCase(reply.query)))

\* of two stored records, the search for "Tt" returned the one whose title is
\* 200 x "T" and left out the one titled "t"
C11_Witness ==
    /\ reply.op = "searchNotices" /\ reply.query = <<84, 116>>
    /\ Cardinality(DOMAIN store) = 2
    /\ Len(reply.result.notices) = 1
    /\ Len(reply.result.notices[1].title) = 200

\* ------------------------------------------------ the codec on its own
\* Valid notices as the constructor accepts them: trimmed fields within the
\* limits, any createdAt, updatedAt null or any value >= createdAt.
ValidNotices ==
    { [id |-> i, title |-> t, description |-> <<100>>,
       createdAt |-> c, updatedAt |-> u, isActive |-> a] :
        i \in {IdA, IdB}, t \in {<<116>>, Rep(84, MAX_TITLE_LENGTH)},
        c \in 0..MaxStamp,
        u \in {None} \cup {Some(v) : v \in 0..MaxStamp},
        a \in BOOLEAN }

CodecInit ==
    /\ store = <<>>
    /\ now = 1
    /\ deleted = {}
    /\ \E n \in ValidNotices :
          /\ n.updatedAt # None => n.createdAt <= n.updatedAt[1]
          /\ reply = [op |-> "notice", notice |-> n]

\* NoticeImplSerialization.toBytes(notice)
ToBytes ==
    /\ reply.op = "notice"
    /\ reply' = [op |-> "toBytes", notice |-> reply.notice,
                 bytes |-> toBytes(reply.notice)]
    /\ UNCHANGED <<store, now, deleted>>

\* NoticeImplSerialization.fromBytes(bytes)
FromBytes ==
    /\ reply.op = "toBytes"
    /\ reply' = [op |-> "fromBytes", notice |-> reply.notice,
                 result |-> fromBytes(reply.bytes)]
    /\ UNCHANGED <<store, now, deleted>>

CodecNext == ToBytes \/ FromBytes

SpecCodec == CodecInit /\ [][CodecNext]_vars

\* C12: for every valid notice n, fromBytes(toBytes(n)) succeeds and equals n
\* field by field; a present updatedAt is never decoded as absent.
C12_CodecRoundTrip ==
    reply.op = "fromBytes" =>
        /\ ~reply.result.threw
        /\ reply.result.notice = reply.notice
        /\ reply.notice.updatedAt # None => reply.result.notice.updatedAt # None

\* the outcome of the query call recorded in r, asked again of the map st
Again(st, r) ==
    CASE r.op = "getNoticeById" -> getNoticeById(st, r.id)
      [] r.op = "getAllNotices" -> getAllNotices(st)
      [] r.op = "getNotices"    -> getNotices(st, r.limit, r.offset)
      [] r.op = "searchNotices" -> searchNotices(st, r.query)

QueryOps == {"getNoticeById", "getAllNotices", "getNotices", "searchNotices"}

\* C13: getNoticeById, getAllNotices, getNotices and searchNotices leave the
\* store as it was, whether they succeed or fail, and the same call made again
\* right after returns the same outcome.
C13_QueriesReadOnly ==
    [][(reply = NoReply /\ reply'.op \in QueryOps) =>
          /\ store' = store
          /\ Again(store', reply') = reply'.result]_vars

\* a search that succeeded with a record to return, and a page that failed,
\* both over a map that holds records
C13_Witness ==
    /\ DOMAIN store # {}
    /\ \/ reply.op = "searchNotices" /\ reply.kind = "Ok"
            /\ Len(reply.result.notices) > 0
       \/ reply.op = "getNotices" /\ reply.kind = "InvalidInput"

\* empty, or made of white space only
Blank(q) == \A i \in 1..Len(q) : q[i] \in WhiteSpace

\* C14: getNotices fails InvalidInput when limit < 0 or offset < 0,
\* searchNotices fails InvalidInput when the query is empty or whitespace-only,
\* and neither fails for any other input.
C14_ListAndSearchFailures ==
    /\ reply.op = "getNotices" =>
          reply.kind = IF reply.limit < 0 \/ reply.offset < 0
                       THEN "InvalidInput" ELSE "Ok"
    /\ reply.op = "searchNotices" =>
          reply.kind = IF Blank(reply.query) THEN "InvalidInput" ELSE "Ok"

\* the whitespace-only query refused over a map that holds a record
C14_Witness ==
    /\ reply.op = "searchNotices"
    /\ reply.query = <<32>>
    /\ reply.kind = "InvalidInput"
    /\ DOMAIN store # {}

\* C15: every call of every public operation, from every reachable store and
\* for every argument, ends with a success or a failure outcome; none ends
\* with an exception that escapes the handler.
C15_NoEscapingException ==
    reply # NoReply => reply.kind \in {"Ok"} \cup ErrorKinds

\* the unguarded reads decoded a record whose title is at the limit
C15_Witness ==
    /\ reply.op \in {"getNoticeById", "getAllNotices"}
    /\ reply.kind = "Ok"
    /\ \E k \in DOMAIN store : Len(store[k].title) = MAX_TITLE_LENGTH
    /\ reply.op = "getNoticeById" => Len(reply.result.notice.title) = MAX_TITLE_LENGTH

\* the supplied value, or the stored one when the argument is null
Merged(opt, stored) == IF opt = None THEN stored ELSE opt[1]

\* C16: updateNotice on an existing id succeeds exactly when the merged title
\* has 1..200 and the merged description 1..1000 characters after trimming,
\* and fails InvalidInput otherwise; a value whose trimmed length is within the
\* limit is accepted even if its untrimmed length is not, as in createNotice.
C16_UpdateValidatesTrimmed ==
    [][(Calls("updateNotice") /\ reply'.id \in DOMAIN store) =>
          LET old == Stored(store, reply'.id)
              valid == /\ TrimmedLenIn(Merged(reply'.title, old.title),
                                       MAX_TITLE_LENGTH)
                       /\ TrimmedLenIn(Merged(reply'.description, old.description),
                                       MAX_DESCRIPTION_LENGTH)
          IN  reply'.kind = IF valid THEN "Ok" ELSE "InvalidInput"]_vars

\* C17: under a clock that never goes back, every stored record whose
\* updatedAt is present has createdAt <= updatedAt (looked at between calls:
\* the map a call leaves is the map of the idle state that follows it).
C17_CreatedBeforeUpdated ==
    reply = NoReply =>
        \A k \in DOMAIN store :
            LET n == Stored(store, k)
            IN  n.updatedAt # None => n.createdAt <= n.updatedAt[1]

\* a record created at time 1 and updated at time 2
C17_Witness ==
    \E k \in DOMAIN store :
        /\ Stored(store, k).createdAt = 1
        /\ Stored(store, k).updatedAt = Some(2)

\* no white space at either end
IsTrimmed(x) == trim(x) = x

\* C18: every stored record has an id of 1..100 characters of [A-Za-z0-9_-],
\* a title of 1..200 and a description of 1..1000 characters, none of them
\* with leading or trailing white space or made of white space only (looked
\* at between calls).
C18_StoredFieldsValid ==
    reply = NoReply =>
        \A k \in DOMAIN store :
            LET n == Stored(store, k)
            IN  /\ Len(n.id) >= 1 /\ Len(n.id) <= MAX_ID_LENGTH
                /\ \A i \in 1..Len(n.id) : n.id[i] \in IdChars
                /\ Len(n.title) >= 1 /\ Len(n.title) <= MAX_TITLE_LENGTH
                /\ Len(n.description) >= 1
                /\ Len(n.description) <= MAX_DESCRIPTION_LENGTH
                /\ IsTrimmed(n.id) /\ IsTrimmed(n.title) /\ IsTrimmed(n.description)
                /\ ~Blank(n.id) /\ ~Blank(n.title) /\ ~Blank(n.description)

\* a record whose title came from " TTT...T" (201 code units) and whose
\* description came from " d", each stored without the blank
C18_Witness ==
    /\ reply = NoReply
    /\ IdA \in DOMAIN store
    /\ Len(Stored(store, IdA).title) = MAX_TITLE_LENGTH
    /\ Stored(store, IdA).description = <<100>>
    /\ IdB \notin DOMAIN store

\* C19: after a successful deleteNotice(id) the key is free again: a following
\* createNotice(id, ...) with valid fields succeeds and stores a fresh record,
\* made of the arguments and the clock of that call alone: createdAt is the
\* time of the create, updatedAt is absent, nothing is left of the old record.
C19_KeyReusableAfterDelete ==
    [][(/\ Calls("createNotice")
        /\ reply'.id \in deleted
        /\ TrimmedLenIn(reply'.title, MAX_TITLE_LENGTH)
        /\ TrimmedLenIn(reply'.description, MAX_DESCRIPTION_LENGTH)) =>
          /\ reply'.kind = "Ok"
          /\ Stored(store', reply'.id) =
                [id |-> reply'.id,
                 title |-> trim(reply'.title),
                 description |-> trim(reply'.description),
                 createdAt |-> reply'.time,
                 updatedAt |-> None,
                 isActive |-> IF reply'.isActive = None THEN TRUE
                                                        ELSE reply'.isActive[1]]]_vars

\* an id that had been deleted was created again, at a later time
C19_Witness ==
    /\ reply.op = "createNotice" /\ reply.kind = "Ok"
    /\ reply.reused
    /\ reply.time = MaxTime
    /\ Stored(store, reply.id).createdAt = MaxTime

\* ------------------------------------------ the soft-delete variant
\* The canister of src/unnamed/part_000: the map holds the Notice objects
\* themselves, ids are generated, nothing is validated, and deleteNotice
\* clears isActive instead of removing the entry.  An insert throws when the
\* encoded value exceeds the 1024 bytes of the map; the encoded size is not
\* computed here, so each insert either fits or throws.

\* generateId(): a time- and random-based string; it may repeat
GeneratedIds == {IdA, IdB}

SoftOk(st, v) == [kind |-> "Ok", store |-> st, value |-> v]
SoftErr(st) == [kind |-> "Err", store |-> st]

\* noticesStorage.insert(key, value) of the soft-delete variant
Soft_insert(st, k, v) == [x \in (DOMAIN st) \cup {k} |-> IF x = k THEN v ELSE st[x]]

\* noticesStorage.values(): the values in key order
Soft_values(st) == [i \in 1..Len(keys(st)) |-> st[keys(st)[i]]]

\* createNotice(title, description)
Soft_createNotice(st, time, id, title, description, fits) ==
    LET notice == [id |-> id,
                   title |-> trim(title),
                   description |-> trim(description),
                   createdAt |-> time,
                   updatedAt |-> None,
                   isActive |-> TRUE]
    IN  IF fits THEN SoftOk(Soft_insert(st, notice.id, notice), notice)
        ELSE SoftErr(st)

\* getNotices()
Soft_getNotices(st) == SoftOk(st, Soft_values(st))

\* getNotice(id)
Soft_getNotice(st, id) ==
    IF id \notin DOMAIN st THEN SoftErr(st) ELSE SoftOk(st, st[id])

\* `a?.trim() || b`: the trimmed argument unless it is missing or empty
TrimmedOr(opt, b) == IF opt # None /\ Len(trim(opt[1])) > 0 THEN trim(opt[1]) ELSE b

\* updateNotice(id, title?, description?)
Soft_updateNotice(st, time, id, title, description, fits) ==
    IF id \notin DOMAIN st THEN SoftErr(st)
    ELSE LET existingNotice == st[id]
             updatedNotice ==
                 [existingNotice EXCEPT
                    !.title = TrimmedOr(title, existingNotice.title),
                    !.description = TrimmedOr(description, existingNotice.description),
                    !.updatedAt = Some(time)]
         IN  IF fits THEN SoftOk(Soft_insert(st, id, updatedNotice), updatedNotice)
             ELSE SoftErr(st)

\* deleteNotice removing the entry instead of flagging it
Soft_deleteNoticeRemove(st, time, id, fits) ==
    IF id \notin DOMAIN st THEN SoftErr(st)
    ELSE IF fits THEN SoftOk(remove(st, id), TRUE)
    ELSE SoftErr(st)

\* deleteNotice(id): the soft delete
Soft_deleteNotice(st, time, id, fits) ==
    IF id \notin DOMAIN st THEN SoftErr(st)
    ELSE LET notice == st[id]
             updatedNotice == [notice EXCEPT !.isActive = FALSE,
                                             !.updatedAt = Some(time)]
         IN  IF fits THEN SoftOk(Soft_insert(st, id, updatedNotice), TRUE)
             ELSE SoftErr(st)

SoftTitles == {TitleT, TitleBlank}
SoftDescriptions == {DescD, DescEmpty}

SoftCreateNotice ==
    /\ reply = NoReply
    /\ \E id \in GeneratedIds, title \in SoftTitles,
          description \in SoftDescriptions, fits \in BOOLEAN :
        LET r == Soft_createNotice(store, now, id, title, description, fits)
        IN  /\ store' = r.store
            /\ reply' = [op |-> "createNotice", title |-> title,
                         description |-> description, time |-> now,
                         kind |-> r.kind]
    /\ UNCHANGED <<now, deleted>>

SoftGetNotices ==
    /\ reply = NoReply
    /\ LET r == Soft_getNotices(store)
       IN  reply' = [op |-> "getNotices", kind |-> r.kind, result |-> r.value]
    /\ UNCHANGED <<store, now, deleted>>

SoftGetNotice ==
    /\ reply = NoReply
    /\ \E id \in GeneratedIds :
        LET r == Soft_getNotice(store, id)
        IN  reply' = [op |-> "getNotice", id |-> id, kind |-> r.kind]
    /\ UNCHANGED <<store, now, deleted>>

SoftUpdateNotice ==
    /\ reply = NoReply
    /\ \E id \in GeneratedIds, title \in OptOf(SoftTitles),
          description \in OptOf(SoftDescriptions), fits \in BOOLEAN :
        LET r == Soft_updateNotice(store, now, id, title, description, fits)
        IN  /\ store' = r.store
            /\ reply' = [op |-> "updateNotice", id |-> id, title |-> title,
                         description |-> description, time |-> now,
                         kind |-> r.kind]
    /\ UNCHANGED <<now, deleted>>

SoftDeleteNotice ==
    /\ reply = NoReply
    /\ \E id \in GeneratedIds, fits \in BOOLEAN :
        LET r == Soft_deleteNotice(store, now, id, fits)
        IN  /\ store' = r.store
            /\ reply' = [op |-> "deleteNotice", id |-> id, time |-> now,
                         kind |-> r.kind]
    /\ UNCHANGED <<now, deleted>>

SoftNext ==
    \/ Tick
    \/ Deliver
    \/ SoftCreateNotice
    \/ SoftGetNotices
    \/ SoftGetNotice
    \/ SoftUpdateNotice
    \/ SoftDeleteNotice

SpecSoft == Init /\ [][SoftNext]_vars

\* C20: in the soft-delete variant a successful deleteNotice(id) keeps the key
\* set, leaves every other record alone and changes two fields of the record
\* under id: isActive becomes false and updatedAt the clock of the call; id,
\* title, description and createdAt stay, and getNotice(id) and getNotices()
\* still return the record.
C20_SoftDeleteFrame ==
    [][(Calls("deleteNotice") /\ reply'.kind = "Ok") =>
          LET id == reply'.id
          IN  /\ id \in DOMAIN store
              /\ DOMAIN store' = DOMAIN store
              /\ \A k \in DOMAIN store \ {id} : store'[k] = store[k]
              /\ store'[id].isActive = FALSE
              /\ store'[id].updatedAt = Some(reply'.time)
              /\ store'[id].id = store[id].id
              /\ store'[id].title = store[id].title
              /\ store'[id].description = store[id].description
              /\ store'[id].createdAt = store[id].createdAt
              /\ Soft_getNotice(store', id) = SoftOk(store', store'[id])
              /\ LET l == Soft_getNotices(store')
                 IN  l.kind = "Ok" /\ \E i \in 1..Len(l.value) : l.value[i] = store'[id]]_vars

\* a record created at time 1 was deleted at time 2, next to a second record
\* that is still active
C20_Witness ==
    /\ reply.op = "deleteNotice" /\ reply.kind = "Ok" /\ reply.time = 2
    /\ DOMAIN store = GeneratedIds
    /\ store[reply.id].createdAt = 1
    /\ store[reply.id].updatedAt = Some(2)
    /\ ~store[reply.id].isActive
    /\ \E k \in DOMAIN store : store[k].isActive

\* C21: every entry of the map is filed under its own id: the record stored
\* under key k has id k, so getNoticeById(k) never returns a record with
\* another id (looked at between calls, and on every getNoticeById outcome).
C21_FiledUnderOwnId ==
    /\ reply = NoReply => \A k \in DOMAIN store : Stored(store, k).id = k
    /\ (reply.op = "getNoticeById" /\ reply.kind = "Ok") =>
          reply.result.notice.id = reply.id

\* createNotice(" a", ...) succeeded and its record is filed under "a", and
\* a record that has been updated is filed under "b"
C21_Witness ==
    /\ reply.op = "createNotice" /\ reply.kind = "Ok" /\ reply.id = IdSpaceA
    /\ DOMAIN store = {IdA, IdB}
    /\ Stored(store, IdA).id = IdA
    /\ Stored(store, IdB).updatedAt # None
====
